---------------------------- MODULE Spec2Model ----------------------------
(***************************************************************************)
(* RFM customer segmentation (online_retail.py): a linear batch script.    *)
(* The state is the script's global tables (df, reference_date, rfm), the  *)
(* output file, and the position of the run (pc), one action per "Step N"  *)
(* section of the script.  An uncaught exception ends the run ("aborted"). *)
(*                                                                         *)
(* Cells of a table are records [tag, val]:                                *)
(*   tag "nan"  : NaN (an empty csv cell, or a failed numeric coercion)    *)
(*   tag "text" : a string that is neither a number nor a date (#val)      *)
(*   tag "num"  : a float, val in tenths (15 is 1.5)                       *)
(*   tag "int"  : an integer val                                           *)
(*   tag "str"  : a string that parses as the timestamp val                *)
(*   tag "date" : the parsed timestamp val, in units of 1/OneDay day       *)
(*   tag "NaT"  : the null timestamp                                       *)
(* An invoice identifier is a sequence of characters.                      *)
(***************************************************************************)
EXTENDS Integers, Sequences, FiniteSets, TLC

VARIABLES pc, df, reference_date, rfm, csv, steps, error

vars == <<pc, df, reference_date, rfm, csv, steps, error>>

\* Bounds of the model.
MaxRows == 2
MaxCust == 6

\* pd.Timedelta(days=1), in the time units of the model (half days).
OneDay == 2

\* The number of quantiles asked of pd.qcut.
NumBins == 5

NaN == [tag |-> "nan", val |-> 0]
NaT == [tag |-> "NaT", val |-> 0]
Text(n) == [tag |-> "text", val |-> n]
Num(n) == [tag |-> "num", val |-> n]
IntCell(n) == [tag |-> "int", val |-> n]
DateStr(t) == [tag |-> "str", val |-> t]
Date(t) == [tag |-> "date", val |-> t]

\* The NaN of the object column InvoiceNo.
NaNInvoice == <<"NaN">>

isna(c) == c.tag \in {"nan", "NaT"}

-----------------------------------------------------------------------------
(* Step 1: Data Cleaning *)

RECURSIVE drop_duplicates(_)
drop_duplicates(s) ==
    IF s = <<>> THEN <<>>
    ELSE LET n == Len(s)
             init == drop_duplicates(SubSeq(s, 1, n - 1))
         IN IF \E j \in 1..(n - 1) : s[j] = s[n] THEN init ELSE Append(init, s[n])

\* pd.to_numeric(errors='coerce')
to_numeric(c) == IF c.tag \in {"num", "int"} THEN c ELSE NaN

\* astype(int) of a float: the fractional part is dropped (towards zero).
astype_int(c) ==
    IF c.tag = "num"
    THEN IntCell(IF c.val >= 0 THEN c.val \div 10 ELSE -((-c.val) \div 10))
    ELSE c

\* pd.to_datetime(errors='coerce')
to_datetime(c) ==
    CASE c.tag = "str" -> Date(c.val)
      [] c.tag = "date" -> c
      [] OTHER -> NaT

\* astype(str) of an InvoiceNo cell.
astype_str(inv) == IF inv = NaNInvoice THEN <<"n", "a", "n">> ELSE inv

startswith(s, ch) == Len(s) > 0 /\ s[1] = ch

CoerceNumeric(r) ==
    [r EXCEPT !.Quantity = to_numeric(@),
              !.UnitPrice = to_numeric(@),
              !.CustomerID = to_numeric(@)]

NotNullRow(r) ==
    /\ ~isna(r.CustomerID)
    /\ ~isna(r.Quantity)
    /\ ~isna(r.UnitPrice)
    /\ ~isna(r.InvoiceDate)

dropna(s) == SelectSeq(s, NotNullRow)

ConvertTypes(r) ==
    [r EXCEPT !.CustomerID = astype_int(@), !.InvoiceDate = to_datetime(@)]

NotCancelled(r) == ~startswith(astype_str(r.InvoiceNo), "C")

Positive(r) == r.Quantity.val > 0 /\ r.UnitPrice.val > 0

WithTotalPrice(r) ==
    [InvoiceNo |-> r.InvoiceNo, CustomerID |-> r.CustomerID,
     Quantity |-> r.Quantity, UnitPrice |-> r.UnitPrice,
     InvoiceDate |-> r.InvoiceDate,
     TotalPrice |-> r.Quantity.val * r.UnitPrice.val]

\* Lines 12-26, in the order of the script.
Clean(s) ==
    LET d12 == drop_duplicates(s)
        d16 == [i \in 1..Len(d12) |-> CoerceNumeric(d12[i])]
        d18 == dropna(d16)
        d21 == [i \in 1..Len(d18) |-> ConvertTypes(d18[i])]
        d23 == SelectSeq(d21, NotCancelled)
        d24 == SelectSeq(d23, Positive)
    IN [i \in 1..Len(d24) |-> WithTotalPrice(d24[i])]

-----------------------------------------------------------------------------
(* The raw tables the model reads: rows with at most one irregular cell. *)

RegInvoice == {<<"5", "3", "6">>, <<"5", "3", "7">>}
IrrInvoice == {<<"C", "5", "3", "6">>, NaNInvoice}
RegCustomer == {Num(10), Num(15), Num(20)}
IrrCustomer == {NaN}
RegQuantity == {Num(2)}
IrrQuantity == {Text(1), Num(-1)}
RegPrice == {Num(3)}
IrrPrice == {Num(0)}
RegDate == {DateStr(0), DateStr(3)}
IrrDate == {NaN, Text(1)}

Irregular(r) ==
    (IF r.InvoiceNo \in IrrInvoice THEN 1 ELSE 0)
    + (IF r.CustomerID \in IrrCustomer THEN 1 ELSE 0)
    + (IF r.Quantity \in IrrQuantity THEN 1 ELSE 0)
    + (IF r.UnitPrice \in IrrPrice THEN 1 ELSE 0)
    + (IF r.InvoiceDate \in IrrDate THEN 1 ELSE 0)

RawRows ==
    {r \in [InvoiceNo : RegInvoice \cup IrrInvoice,
            CustomerID : RegCustomer \cup IrrCustomer,
            Quantity : RegQuantity \cup IrrQuantity,
            UnitPrice : RegPrice \cup IrrPrice,
            InvoiceDate : RegDate \cup IrrDate] : Irregular(r) <= 1}

RawTables == UNION {[1..n -> RawRows] : n \in 0..MaxRows}

NoFile == [written |-> FALSE, rows |-> <<>>]

\* After line 7: the csv file is loaded, nothing else has run.
Init ==
    /\ df \in RawTables
    /\ pc = "Step1"
    /\ reference_date = NaT
    /\ rfm = <<>>
    /\ csv = NoFile
    /\ steps = <<>>
    /\ error = 0

Step1 ==
    /\ pc = "Step1"
    /\ df' = Clean(df)
    /\ pc' = "Step2"
    /\ steps' = Append(steps, 1)
    /\ UNCHANGED <<reference_date, rfm, csv, error>>


-----------------------------------------------------------------------------
(* Step 2: Define Reference Date *)

\* Series.max() of a datetime column: NaT is skipped; NaT when nothing is left.
SeriesMax(cells) ==
    LET valid == {c \in cells : ~isna(c)}
    IN IF valid = {} THEN NaT
       ELSE Date(CHOOSE t \in {c.val : c \in valid} : \A c \in valid : c.val <= t)

\* Timestamp + Timedelta: NaT stays NaT.
AddDelta(d, delta) == IF isna(d) THEN NaT ELSE Date(d.val + delta)

\* df['InvoiceDate'], as the set of its values.
InvoiceDates(s) == {s[i].InvoiceDate : i \in 1..Len(s)}

ReferenceDate(s) == AddDelta(SeriesMax(InvoiceDates(s)), OneDay)

Step2 ==
    /\ pc = "Step2"
    /\ reference_date' = ReferenceDate(df)
    /\ pc' = "Step3"
    /\ steps' = Append(steps, 2)
    /\ UNCHANGED <<df, rfm, csv, error>>

-----------------------------------------------------------------------------
(* Step 3: Calculate RFM Metrics *)

\* (reference_date - x.max()).days: NaT when either side is NaT, and NaT.days is NaN;
\* the days of a Timedelta are its whole days (floor).
Recency(ref, group) ==
    LET last == SeriesMax(InvoiceDates(group))
    IN IF isna(ref) \/ isna(last) THEN NaN
       ELSE IntCell((ref.val - last.val) \div OneDay)

\* Frequency as 'count' instead of 'nunique': the records with an invoice identifier.
FrequencyCount(group) ==
    IntCell(Cardinality({i \in 1..Len(group) : group[i].InvoiceNo # NaNInvoice}))

\* nunique: the distinct values, NaN not counted.
Frequency(group) ==
    IntCell(Cardinality({group[i].InvoiceNo : i \in 1..Len(group)} \ {NaNInvoice}))

RECURSIVE SumTotalPrice(_)
SumTotalPrice(group) ==
    IF group = <<>> THEN 0
    ELSE group[1].TotalPrice + SumTotalPrice(Tail(group))

Monetary(group) == IntCell(SumTotalPrice(group))

\* groupby keys, ascending.
RECURSIVE SortedKeys(_)
SortedKeys(S) ==
    IF S = {} THEN <<>>
    ELSE LET m == CHOOSE x \in S : \A y \in S : x <= y
         IN <<m>> \o SortedKeys(S \ {m})

GroupOf(s, k) == SelectSeq(s, LAMBDA r : r.CustomerID.val = k)

\* Aggregate grouping by ['CustomerID', 'InvoiceNo'] instead of 'CustomerID'.
AggregateByInvoice(s, ref) ==
    LET keys == drop_duplicates([i \in 1..Len(s) |-> <<s[i].CustomerID.val, s[i].InvoiceNo>>])
    IN [i \in 1..Len(keys) |->
          LET g == SelectSeq(s, LAMBDA r : <<r.CustomerID.val, r.InvoiceNo>> = keys[i])
          IN [CustomerID |-> keys[i][1],
              Recency |-> Recency(ref, g),
              Frequency |-> Frequency(g),
              Monetary |-> Monetary(g)]]

Aggregate(s, ref) ==
    LET keys == SortedKeys({s[i].CustomerID.val : i \in 1..Len(s)})
    IN [i \in 1..Len(keys) |->
          LET g == GroupOf(s, keys[i])
          IN [CustomerID |-> keys[i],
              Recency |-> Recency(ref, g),
              Frequency |-> Frequency(g),
              Monetary |-> Monetary(g)]]

Step3 ==
    /\ pc = "Step3"
    /\ rfm' = Aggregate(df, reference_date)
    /\ pc' = "Step4"
    /\ steps' = Append(steps, 3)
    /\ UNCHANGED <<df, reference_date, csv, error>>

-----------------------------------------------------------------------------
(* Step 4: Assign RFM Scores *)

\* Series.rank(method="first"): ties ranked in the order they appear; NaN stays NaN.
rank_first(col) ==
    [i \in 1..Len(col) |->
        IF isna(col[i]) THEN NaN
        ELSE IntCell(1 + Cardinality({j \in 1..Len(col) :
                 /\ ~isna(col[j])
                 /\ \/ col[j].val < col[i].val
                    \/ (col[j].val = col[i].val /\ j < i)}))]

RECURSIVE SortedVals(_)
SortedVals(col) ==
    IF col = <<>> THEN <<>>
    ELSE LET i == CHOOSE a \in 1..Len(col) : \A b \in 1..Len(col) : col[a] <= col[b]
         IN <<col[i]>> \o SortedVals(SubSeq(col, 1, i - 1) \o SubSeq(col, i + 1, Len(col)))

ValidVals(x) ==
    LET v == SelectSeq(x, LAMBDA c : ~isna(c)) IN [i \in 1..Len(v) |-> v[i].val]

\* x.quantile(k / NumBins), linear interpolation, times NumBins; sv is sorted, not empty.
Quantile(sv, k) ==
    LET pos == (Len(sv) - 1) * k
        lo == pos \div NumBins
        rem == pos % NumBins
    IN IF rem = 0 THEN NumBins * sv[lo + 1]
       ELSE NumBins * sv[lo + 1] + rem * (sv[lo + 2] - sv[lo + 1])

\* The bin of value v: bins.searchsorted(v, side='left'), the lowest edge included.
BinOf(edges, v) ==
    IF NumBins * v = edges[0] THEN 1
    ELSE Cardinality({k \in 0..NumBins : edges[k] < NumBins * v})

\* pd.qcut(x, NumBins, labels): [ok, codes]; ~ok is "ValueError: Bin edges must be
\* unique" (the quantiles of an empty or all-NaN x are all NaN).
qcut(x, labels) ==
    LET sv == SortedVals(ValidVals(x))
        edges == [k \in 0..NumBins |-> Quantile(sv, k)]
    IN IF sv = <<>> \/ \E k \in 1..NumBins : edges[k - 1] = edges[k]
       THEN [ok |-> FALSE, codes |-> <<>>]
       ELSE [ok |-> TRUE,
             codes |-> [i \in 1..Len(x) |->
                 IF isna(x[i]) THEN NaN
                 ELSE LET b == BinOf(edges, x[i].val)
                      IN IF b = 0 \/ b = NumBins + 1 THEN NaN ELSE IntCell(labels[b])]]

\* The Recency labels not inverted.
RLabelsAscending == <<1, 2, 3, 4, 5>>

RLabels == <<5, 4, 3, 2, 1>>
FLabels == <<1, 2, 3, 4, 5>>
MLabels == <<1, 2, 3, 4, 5>>

\* astype(str) of a score.
ScoreStr(c) == IF isna(c) THEN "nan" ELSE <<"1", "2", "3", "4", "5">>[c.val]

AddColumn(t, name, col) == [i \in 1..Len(t) |-> (name :> col[i]) @@ t[i]]

RecencyCol(t) == [i \in 1..Len(t) |-> t[i].Recency]
FrequencyCol(t) == [i \in 1..Len(t) |-> t[i].Frequency]
MonetaryCol(t) == [i \in 1..Len(t) |-> t[i].Monetary]

\* Score with an RFM_Score that does not raise on a NaN score (the NaN is skipped).
ScoreNaNTolerant(t) ==
    LET R == qcut(rank_first(RecencyCol(t)), RLabels)
        t51 == AddColumn(t, "R_score", R.codes)
        F == qcut(rank_first(FrequencyCol(t51)), FLabels)
        t52 == AddColumn(t51, "F_score", F.codes)
        M == qcut(rank_first(MonetaryCol(t52)), MLabels)
        t53 == AddColumn(t52, "M_score", M.codes)
        t55 == AddColumn(t53, "RFM_Segment",
                  [i \in 1..Len(t) |-> <<ScoreStr(t53[i].R_score),
                                         ScoreStr(t53[i].F_score),
                                         ScoreStr(t53[i].M_score)>>])
        t56 == AddColumn(t55, "RFM_Score",
                  [i \in 1..Len(t) |->
                      t55[i].R_score.val + t55[i].F_score.val + t55[i].M_score.val])
    IN CASE ~R.ok -> [line |-> 51, table |-> t]
         [] R.ok /\ ~F.ok -> [line |-> 52, table |-> t51]
         [] R.ok /\ F.ok /\ ~M.ok -> [line |-> 53, table |-> t52]
         [] OTHER -> [line |-> 0, table |-> t56]

\* Lines 51-56: [line, table], line the statement that raised (0: none) and table
\* the rfm it leaves.
Score(t) ==
    LET R == qcut(rank_first(RecencyCol(t)), RLabels)
        t51 == AddColumn(t, "R_score", R.codes)
        F == qcut(rank_first(FrequencyCol(t51)), FLabels)
        t52 == AddColumn(t51, "F_score", F.codes)
        M == qcut(rank_first(MonetaryCol(t52)), MLabels)
        t53 == AddColumn(t52, "M_score", M.codes)
        t55 == AddColumn(t53, "RFM_Segment",
                  [i \in 1..Len(t) |-> <<ScoreStr(t53[i].R_score),
                                         ScoreStr(t53[i].F_score),
                                         ScoreStr(t53[i].M_score)>>])
        anyNaN == \E i \in 1..Len(t) :
                     isna(t53[i].R_score) \/ isna(t53[i].F_score) \/ isna(t53[i].M_score)
        t56 == AddColumn(t55, "RFM_Score",
                  [i \in 1..Len(t) |->
                      t55[i].R_score.val + t55[i].F_score.val + t55[i].M_score.val])
    IN CASE ~R.ok -> [line |-> 51, table |-> t]
         [] R.ok /\ ~F.ok -> [line |-> 52, table |-> t51]
         [] R.ok /\ F.ok /\ ~M.ok -> [line |-> 53, table |-> t52]
         [] R.ok /\ F.ok /\ M.ok /\ anyNaN -> [line |-> 56, table |-> t55]
         [] OTHER -> [line |-> 0, table |-> t56]

Step4 ==
    /\ pc = "Step4"
    /\ LET s == Score(rfm)
       IN /\ rfm' = s.table
          /\ error' = s.line
          /\ pc' = IF s.line = 0 THEN "Step5" ELSE "aborted"
          /\ steps' = IF s.line = 0 THEN Append(steps, 4) ELSE steps
    /\ UNCHANGED <<df, reference_date, csv>>

-----------------------------------------------------------------------------
(* Step 5: Customer Segmentation *)

\* segment_customer with the first rule reading M_score in place of F_score.
segment_customer_monetary(row) ==
    LET r == row.R_score.val
        f == row.F_score.val
        m == row.M_score.val
    IN IF r >= 4 /\ m >= 4 THEN "Champions"
       ELSE IF r >= 3 /\ f >= 3 THEN "Loyal Customers"
       ELSE IF r >= 3 /\ f <= 2 THEN "Potential Loyalist"
       ELSE IF r <= 2 /\ f >= 3 THEN "At Risk"
       ELSE "Others"

\* int(row[...]) of a NaN score raises ValueError.
segment_customer(row) ==
    LET r == row.R_score.val
        f == row.F_score.val
        m == row.M_score.val
    IN IF r >= 4 /\ f >= 4 THEN "Champions"
       ELSE IF r >= 3 /\ f >= 3 THEN "Loyal Customers"
       ELSE IF r >= 3 /\ f <= 2 THEN "Potential Loyalist"
       ELSE IF r <= 2 /\ f >= 3 THEN "At Risk"
       ELSE "Others"

Step5 ==
    /\ pc = "Step5"
    /\ IF \E i \in 1..Len(rfm) :
             isna(rfm[i].R_score) \/ isna(rfm[i].F_score) \/ isna(rfm[i].M_score)
       THEN /\ pc' = "aborted"
            /\ error' = 62
            /\ UNCHANGED <<rfm, steps>>
       ELSE /\ rfm' = AddColumn(rfm, "Segment",
                         [i \in 1..Len(rfm) |-> segment_customer(rfm[i])])
            /\ pc' = "Step6"
            /\ steps' = Append(steps, 5)
            /\ UNCHANGED error
    /\ UNCHANGED <<df, reference_date, csv>>

-----------------------------------------------------------------------------
(* Step 6: Visualization, Step 7: Save Results *)

\* The charts read rfm and change none of the tables.
Step6 ==
    /\ pc = "Step6"
    /\ pc' = "Step7"
    /\ steps' = Append(steps, 6)
    /\ UNCHANGED <<df, reference_date, rfm, csv, error>>

Step7 ==
    /\ pc = "Step7"
    /\ csv' = [written |-> TRUE, rows |-> rfm]
    /\ pc' = "done"
    /\ steps' = Append(steps, 7)
    /\ UNCHANGED <<df, reference_date, rfm, error>>

Next == Step1 \/ Step2 \/ Step3 \/ Step4 \/ Step5 \/ Step6 \/ Step7

Spec == Init /\ [][Next]_vars

-----------------------------------------------------------------------------
(* Well-formed inputs with up to MaxCust customers: customer c buys according *)
(* to one of a few profiles, so that Recency, Frequency and Monetary tie and  *)
(* differ between customers in every order.                                   *)

Digit == <<"1", "2", "3", "4", "5", "6", "7", "8", "9">>

RawRow(c, n, date, qty) ==
    [InvoiceNo |-> <<"5", Digit[c], Digit[n]>>, CustomerID |-> Num(10 * c),
     Quantity |-> Num(qty), UnitPrice |-> Num(3), InvoiceDate |-> date]

Profiles == {"recent", "frequent", "lapsed", "undated"}

ProfileRows(c, p) ==
    CASE p = "recent" -> <<RawRow(c, 1, DateStr(4), 2)>>
      [] p = "frequent" -> <<RawRow(c, 1, DateStr(2), 2), RawRow(c, 2, DateStr(4), 2)>>
      [] p = "lapsed" -> <<RawRow(c, 1, DateStr(0), 2), RawRow(c, 2, DateStr(1), 4)>>
      [] p = "undated" -> <<RawRow(c, 1, Text(1), 2)>>

RECURSIVE CustomerTable(_)
CustomerTable(ps) ==
    IF ps = <<>> THEN <<>>
    ELSE CustomerTable(SubSeq(ps, 1, Len(ps) - 1)) \o ProfileRows(Len(ps), ps[Len(ps)])

InitCustomers ==
    /\ \E n \in 1..MaxCust : \E ps \in [1..n -> Profiles] : df = CustomerTable(ps)
    /\ pc = "Step1"
    /\ reference_date = NaT
    /\ rfm = <<>>
    /\ csv = NoFile
    /\ steps = <<>>
    /\ error = 0

SpecCustomers == InitCustomers /\ [][Next]_vars


-----------------------------------------------------------------------------
(* The classifier on every score triple: a table of one scored customer. *)

Scores == 1..NumBins

ScoredRow(r, f, m) ==
    [CustomerID |-> 1, Recency |-> IntCell(1), Frequency |-> IntCell(1),
     Monetary |-> IntCell(6),
     R_score |-> IntCell(r), F_score |-> IntCell(f), M_score |-> IntCell(m),
     RFM_Segment |-> <<ScoreStr(IntCell(r)), ScoreStr(IntCell(f)), ScoreStr(IntCell(m))>>,
     RFM_Score |-> r + f + m]

InitSegment ==
    /\ \E r \in Scores, f \in Scores, m \in Scores : rfm = <<ScoredRow(r, f, m)>>
    /\ pc = "Step5"
    /\ df = <<>>
    /\ reference_date = NaT
    /\ csv = NoFile
    /\ steps = <<1, 2, 3, 4>>
    /\ error = 0

NextSegment == Step5 \/ Step6 \/ Step7

SpecSegment == InitSegment /\ [][NextSegment]_vars

-----------------------------------------------------------------------------
(* Properties *)

Completed(n) == \E i \in 1..Len(steps) : steps[i] = n

Rows(t) == 1..Len(t)

\* C1: every record that survives the Cleaner has quantity > 0, unit price > 0, an
\* integer customer identifier, a parsed invoice timestamp and an invoice identifier
\* that does not start with 'C'.
CleanedRecordsValid ==
    Completed(1) =>
        \A i \in Rows(df) :
            /\ df[i].Quantity.tag \in {"num", "int"} /\ df[i].Quantity.val > 0
            /\ df[i].UnitPrice.tag \in {"num", "int"} /\ df[i].UnitPrice.val > 0
            /\ df[i].CustomerID.tag = "int"
            /\ df[i].InvoiceDate.tag = "date"
            /\ ~startswith(df[i].InvoiceNo, "C")

\* C6: the Cleaner is idempotent: cleaning its own output drops no record and
\* changes no field.
CleanerIdempotent == Completed(1) => Clean(df) = df

\* C4: every customer of the aggregated table has an integer Recency >= 1.
RecencyAtLeastOne ==
    Completed(3) =>
        \A i \in Rows(rfm) : rfm[i].Recency.tag = "int" /\ rfm[i].Recency.val >= 1

\* C8: when cleaning yields zero records the run aborts before the reference date
\* is computed: the reference-date step never completes on an empty cleaned set.
EmptyInputAborts == Completed(2) => df # <<>>

\* C7: with fewer than 5 customers (1..4) the Scorer aborts: scoring never completes.
FewCustomersAbort == Completed(4) => Len(rfm) \notin 1..4

RECURSIVE SumFrequency(_)
SumFrequency(t) ==
    IF t = <<>> THEN 0 ELSE t[1].Frequency.val + SumFrequency(Tail(t))

DistinctInvoices(s) == {s[i].InvoiceNo : i \in Rows(s)} \ {NaNInvoice}

CustomerInvoicePairs(s) ==
    {<<s[i].CustomerID.val, s[i].InvoiceNo>> : i \in {j \in Rows(s) : s[j].InvoiceNo # NaNInvoice}}

SharedInvoice(s) ==
    \E i, j \in Rows(s) :
        /\ s[i].InvoiceNo = s[j].InvoiceNo
        /\ s[i].InvoiceNo # NaNInvoice
        /\ s[i].CustomerID # s[j].CustomerID

\* C5 as stated: the sum of Frequency over all customers is the number of distinct
\* invoice identifiers of the cleaned set, also when customers share an invoice.
FrequencySumIsDistinctInvoices ==
    Completed(3) => SumFrequency(rfm) = Cardinality(DistinctInvoices(df))

\* C5 as amended: the sum of Frequency over all customers is the number of distinct
\* (customer, invoice) pairs of the cleaned set, which is the number of distinct
\* invoice identifiers when no invoice is shared between customers.
FrequencySumIsCustomerInvoicePairs ==
    Completed(3) =>
        /\ SumFrequency(rfm) = Cardinality(CustomerInvoicePairs(df))
        /\ ~SharedInvoice(df) => SumFrequency(rfm) = Cardinality(DistinctInvoices(df))

SharedInvoiceAggregated == Completed(3) /\ SharedInvoice(df)


SegmentLabels ==
    {"Champions", "Loyal Customers", "Potential Loyalist", "At Risk", "Others"}

\* The ordered rule list of the classifier, as a decision table.
Rules(r, f) ==
    << [hit |-> r >= 4 /\ f >= 4, label |-> "Champions"],
       [hit |-> r >= 3 /\ f >= 3, label |-> "Loyal Customers"],
       [hit |-> r >= 3 /\ f <= 2, label |-> "Potential Loyalist"],
       [hit |-> r <= 2 /\ f >= 3, label |-> "At Risk"],
       [hit |-> TRUE, label |-> "Others"] >>

FirstMatch(r, f) ==
    LET rules == Rules(r, f)
        first == CHOOSE k \in 1..Len(rules) :
                    rules[k].hit /\ \A j \in 1..(k - 1) : ~rules[j].hit
    IN rules[first].label

\* C2: segment_customer is total on [1,5]^3, returns the label of the first matching
\* rule of the ordered list, and its result does not depend on M_score.
SegmentIsFirstMatchingRule ==
    Completed(5) =>
        \A i \in Rows(rfm) :
            /\ rfm[i].Segment \in SegmentLabels
            /\ rfm[i].Segment = FirstMatch(rfm[i].R_score.val, rfm[i].F_score.val)
            /\ \A m \in Scores :
                  segment_customer([rfm[i] EXCEPT !.M_score = IntCell(m)]) = rfm[i].Segment

\* A triple that matches the first two rules, classified.
OverlappingRulesClassified ==
    /\ Completed(5)
    /\ \E i \in Rows(rfm) :
          /\ rfm[i].R_score.val = 5 /\ rfm[i].F_score.val = 5 /\ rfm[i].M_score.val = 1
          /\ rfm[i].Segment = "Champions"

ScoreColumns == {"R_score", "F_score", "M_score"}

CountScore(t, col, v) ==
    Cardinality({i \in Rows(t) : t[i][col].tag = "int" /\ t[i][col].val = v})

\* C3: for every customer count N, each of R_score, F_score and M_score gives every
\* score value 1..5 to floor(N/5) or ceil(N/5) customers, ties included.
QuintileBalance ==
    Completed(4) =>
        LET N == Len(rfm)
        IN \A col \in ScoreColumns : \A v \in Scores :
              CountScore(rfm, col, v) \in {N \div NumBins, (N + NumBins - 1) \div NumBins}

\* More customers than buckets, some tied on Frequency, scored.
TiedCustomersScored ==
    /\ Completed(4)
    /\ Len(rfm) > NumBins
    /\ \E i, j \in Rows(rfm) : i # j /\ rfm[i].Frequency = rfm[j].Frequency
    /\ \E v \in Scores : CountScore(rfm, "F_score", v) # CountScore(rfm, "F_score", 1)

\* Customer a comes before customer b in the ranking of metric col.
RankedBefore(t, col, a, b) ==
    \/ t[a][col].val < t[b][col].val
    \/ (t[a][col].val = t[b][col].val /\ a < b)

\* C10: with N >= 5 customers the scores preserve the order of their metric (R_score
\* inverted, F_score and M_score direct), the first customer by Recency gets
\* R_score 5 and the last gets 1, and of two customers tied on a metric the earlier
\* in table order is never on the later-rank side of the other.
ScoresOrderPreserving ==
    (Completed(4) /\ Len(rfm) >= NumBins) =>
        /\ \A a, b \in Rows(rfm) :
              /\ RankedBefore(rfm, "Recency", a, b) => rfm[a].R_score.val >= rfm[b].R_score.val
              /\ RankedBefore(rfm, "Frequency", a, b) => rfm[a].F_score.val <= rfm[b].F_score.val
              /\ RankedBefore(rfm, "Monetary", a, b) => rfm[a].M_score.val <= rfm[b].M_score.val
        /\ \A a \in Rows(rfm) :
              /\ (\A b \in Rows(rfm) \ {a} : RankedBefore(rfm, "Recency", a, b))
                    => rfm[a].R_score.val = 5
              /\ (\A b \in Rows(rfm) \ {a} : RankedBefore(rfm, "Recency", b, a))
                    => rfm[a].R_score.val = 1

\* Five or more customers scored, two of them tied on Recency and in different
\* buckets, two others with different Recency.
TiedRecencySplit ==
    /\ Completed(4)
    /\ Len(rfm) >= NumBins
    /\ \E a, b \in Rows(rfm) :
          /\ a < b
          /\ rfm[a].Recency = rfm[b].Recency
          /\ rfm[a].R_score.val > rfm[b].R_score.val
    /\ \E a, b \in Rows(rfm) : rfm[a].Recency.val < rfm[b].Recency.val

OutputColumns ==
    {"CustomerID", "Recency", "Frequency", "Monetary", "R_score", "F_score",
     "M_score", "RFM_Segment", "RFM_Score", "Segment"}

CleanedCustomers == {df[i].CustomerID.val : i \in Rows(df)}

RowComplete(row) ==
    /\ DOMAIN row = OutputColumns
    /\ row.Recency.tag = "int"
    /\ row.Frequency.tag = "int"
    /\ row.Monetary.tag = "int"
    /\ \A col \in ScoreColumns : row[col].tag = "int" /\ row[col].val \in Scores
    /\ row.RFM_Segment =
          <<Digit[row.R_score.val], Digit[row.F_score.val], Digit[row.M_score.val]>>
    /\ row.RFM_Score = row.R_score.val + row.F_score.val + row.M_score.val
    /\ row.Segment \in SegmentLabels

\* C9: the output file is written only after cleaning, aggregation, scoring,
\* classification and reporting have completed, a failed run leaves it unwritten,
\* and when written it holds one complete row per distinct cleaned customer.
OutputComplete ==
    /\ csv.written =>
          /\ steps = <<1, 2, 3, 4, 5, 6, 7>>
          /\ error = 0
          /\ Len(csv.rows) = Cardinality(CleanedCustomers)
          /\ {csv.rows[i].CustomerID : i \in Rows(csv.rows)} = CleanedCustomers
          /\ \A i \in Rows(csv.rows) : RowComplete(csv.rows[i])
    /\ (pc = "aborted" \/ error # 0) => ~csv.written

\* A run of several customers, one of them with two invoices, that wrote its output.
OutputWritten ==
    /\ csv.written
    /\ Len(csv.rows) >= 2
    /\ \E i \in Rows(csv.rows) : csv.rows[i].Frequency.val = 2

=============================================================================
